---------------------------- MODULE Spec2Model ----------------------------
(***************************************************************************)
(* Admin actions of the shop (server actions of actions/admin.ts) and the  *)
(* card upload component (CardsContent).                                   *)
(*                                                                         *)
(* A string is a sequence of one-character strings, so that trim, split    *)
(* and toLowerCase are computed and not assumed.  A nullable column is a   *)
(* sequence of length 0 (NULL) or 1 (the value).  Time is in milliseconds. *)
(***************************************************************************)
EXTENDS Integers, Sequences, FiniteSets, TLC

(***************************************************************************)
(* Program constants                                                       *)
(***************************************************************************)
\* const BATCH_SIZE = 50 of the upload component
BATCH_SIZE == 50
\* const BATCH_SIZE = 10 inside addCards / addCardsBatch (rows per INSERT)
INSERT_BATCH_SIZE == 10
\* 60 * 1000 of deleteCard, 60000 of deleteAllCards
RESERVE_WINDOW_MS == 60000
\* unixepoch() * 1000
MS_PER_SECOND == 1000
\* name.length > 64 of saveShopName
SHOP_NAME_MAX == 64
\* the default '5' of saveLowStockThreshold
LOW_STOCK_DEFAULT == 5
\* the default '10' of saveCheckinReward
CHECKIN_REWARD_DEFAULT == 10

(***************************************************************************)
(* Bounds of the model                                                     *)
(***************************************************************************)
\* the clock at the initial state (ms since the epoch)
StartTime == 1000000
\* clock steps in one behaviour
MaxTicks == 2
\* steps of the redemption flow in one behaviour
MaxRedeem == 1
\* lines of the largest uploaded file
MaxLines == 112

(***************************************************************************)
(* Strings                                                                 *)
(***************************************************************************)
\* White space as String.prototype.trim sees it (the part the model uses)
IsSpace(c) == c \in {" ", "\t", "\n", "\r"}

RECURSIVE TrimStart(_)
TrimStart(s) ==
    IF s = <<>> THEN <<>>
    ELSE IF IsSpace(Head(s)) THEN TrimStart(Tail(s)) ELSE s

RECURSIVE TrimEnd(_)
TrimEnd(s) ==
    IF s = <<>> THEN <<>>
    ELSE IF IsSpace(s[Len(s)]) THEN TrimEnd(SubSeq(s, 1, Len(s) - 1)) ELSE s

\* String.prototype.trim
Trim(s) == TrimEnd(TrimStart(s))

LowerChar(c) ==
    CASE c = "A" -> "a"
      [] c = "B" -> "b"
      [] c = "C" -> "c"
      [] OTHER -> c

\* String.prototype.toLowerCase
ToLowerCase(s) == [k \in 1..Len(s) |-> LowerChar(s[k])]

\* String.prototype.split(sep) for a one-character separator: the pieces
\* between separators, empty pieces kept, so "" gives [""].  The string is
\* split by halves: the last piece of the left half and the first piece of
\* the right half are one piece.
RECURSIVE Split(_, _)
Split(s, sep) ==
    IF Len(s) = 0 THEN << <<>> >>
    ELSE IF Len(s) = 1 THEN (IF s[1] = sep THEN << <<>>, <<>> >> ELSE <<s>>)
    ELSE LET h == Len(s) \div 2
             l == Split(SubSeq(s, 1, h), sep)
             r == Split(SubSeq(s, h + 1, Len(s)), sep)
         IN  SubSeq(l, 1, Len(l) - 1) \o <<l[Len(l)] \o r[1]>> \o Tail(r)

\* Array.prototype.includes
Includes(arr, x) == \E k \in 1..Len(arr) : arr[k] = x

\* Array.prototype.map(c => c.trim())
MapTrim(arr) == [k \in 1..Len(arr) |-> Trim(arr[k])]

\* Array.prototype.filter(c => c): the empty string is falsy
FilterNonEmpty(arr) == SelectSeq(arr, LAMBDA c : c # <<>>)

\* Array.prototype.slice(from, to) with 0 <= from, 0-based, end exclusive
Slice(arr, from, to) ==
    SubSeq(arr, from + 1, IF to < Len(arr) THEN to ELSE Len(arr))

Min(a, b) == IF a < b THEN a ELSE b

\* Math.round(num / den * 100) for num >= 0, den > 0 (round half up)
RoundPercent(num, den) == (2 * 100 * num + den) \div (2 * den)


(***************************************************************************)
(* State                                                                   *)
(***************************************************************************)
VARIABLES
    adminUsersEnv,  \* process.env.ADMIN_USERS: <<>> (unset) or <<string>>
    cards,          \* the cards table, rows in insertion order
    nextId,         \* the next value of the autoincrement column cards.id
    uqIndex,        \* the legacy index cards_product_id_card_key_uq exists
    now,            \* the clock, ms since the epoch
    calls,          \* the server-action calls in flight or not yet consumed
    redeems,        \* redemption steps made so far
    ticks,          \* clock steps made so far
    uploading,      \* useState(false)
    progress,       \* useState(0)
    totalCount,     \* useState(0)
    processedCount, \* useState(0)
    pc,             \* where handleFileUpload stands
    file,           \* the file chosen (event.target.files[0])
    cardList,       \* local cardList of handleFileUpload
    i,              \* loop variable i of handleFileUpload
    successCount,   \* local successCount of handleFileUpload
    toasts,         \* the notifications shown so far, with the session's file
    plan,           \* the files the user goes on to choose, in order
    startRows,      \* history: the number of card rows when the upload began
    shop            \* the products, categories, settings and reviews tables

storage == <<cards, nextId, uqIndex, shop>>
clientVars == <<uploading, progress, totalCount, processedCount, pc, file,
                cardList, i, successCount, toasts, plan, startRows>>
vars == <<adminUsersEnv, cards, nextId, uqIndex, shop, now, calls,
          redeems, ticks, uploading, progress, totalCount,
          processedCount, pc, file, cardList, i, successCount, toasts,
          plan, startRows>>

(***************************************************************************)
(* Inputs                                                                  *)
(***************************************************************************)
ProductIds == {"p1", "p2"}

\* The ids of the products table: the two above and `prod_${Date.now()}`
ShopProductIds == ProductIds \cup {"prod_now"}

SettingKeys ==
    {"shop_name", "low_stock_threshold", "checkin_reward", "checkin_enabled"}

\* What auth() resolves to: no session user, a user without username, or a
\* user with a username.
NoSession == [user |-> FALSE, hasName |-> FALSE, username |-> <<>>]
NoUsername == [user |-> TRUE, hasName |-> FALSE, username |-> <<>>]
User(name) == [user |-> TRUE, hasName |-> TRUE, username |-> name]
\* The caller slot of a call once checkAdmin has returned (it keeps nothing)
Checked == [user |-> FALSE, hasName |-> FALSE, username |-> <<"-">>]

Callers ==
    {NoSession, NoUsername, User(<<>>), User(<<"a">>), User(<<"A">>),
     User(<<"b">>), User(<<"B", "c">>)}

AdminEnvs == {<<>>, << <<"A", ",", "b", "C">> >>, << <<>> >>}

\* Rows of the cards table
Row(id, productId, cardKey, isUsed, reservedAt) ==
    [id |-> id, productId |-> productId, cardKey |-> cardKey,
     isUsed |-> isUsed, reservedAt |-> reservedAt]


(***************************************************************************)
(* checkAdmin                                                              *)
(***************************************************************************)
\* process.env.ADMIN_USERS?.toLowerCase().split(',') || []
AdminUsers(env) ==
    IF env = <<>> THEN <<>> ELSE Split(ToLowerCase(env[1]), ",")

\* A slip: the allow-list is not consulted when it is empty
IsAdminOpenByDefault(caller, env) ==
    /\ caller.user
    /\ caller.hasName
    /\ caller.username # <<>>
    /\ \/ AdminUsers(env) = <<>>
       \/ Includes(AdminUsers(env), ToLowerCase(caller.username))

\* The condition under which checkAdmin returns without throwing
IsAdmin(caller, env) ==
    /\ caller.user
    /\ caller.hasName
    /\ caller.username # <<>>
    /\ Includes(AdminUsers(env), ToLowerCase(caller.username))

(***************************************************************************)
(* Server-action calls                                                     *)
(***************************************************************************)
\* A call as it is received: the action, its arguments (productId, raw,
\* text, cardId, num, flag, as the action takes them), the caller auth()
\* will resolve to.  st is the statement the call waits at; ok/val/err are
\* its outcome once st = "done"; reval lists the revalidatePath calls made.
NewCall(origin, op, caller, productId, raw, text, cardId) ==
    [origin |-> origin, op |-> op, caller |-> caller, st |-> "auth",
     productId |-> productId, raw |-> raw, text |-> text, cardId |-> cardId,
     num |-> 0, flag |-> FALSE,
     keys |-> <<>>, j |-> 0, ok |-> FALSE, val |-> 0, err |-> "",
     reval |-> <<>>]

Throw(c, msg) == [c EXCEPT !.st = "done", !.ok = FALSE, !.err = msg,
                            !.caller = Checked]

Return(c, v, paths) == [c EXCEPT !.st = "done", !.ok = TRUE, !.val = v,
                                 !.reval = paths, !.caller = Checked]

\* revalidatePath('/admin'); revalidatePath(`/admin/cards/${productId}`);
\* revalidatePath('/')
CardPaths(productId) == << <<"/admin">>, <<"/admin/cards", productId>>, <<"/">> >>

\* revalidatePath('/admin'); revalidatePath('/admin/cards'); revalidatePath('/')
DeleteCardPaths == << <<"/admin">>, <<"/admin/cards">>, <<"/">> >>

\* A slip: the empty strings are filtered out before the keys are trimmed
ValidKeysFilterFirst(cardKeys) == MapTrim(FilterNonEmpty(cardKeys))

\* cardKeys.map(k => k.trim()).filter(k => k)
ValidKeys(cardKeys) == FilterNonEmpty(MapTrim(cardKeys))

\* A slip: commas separate keys too
NormalizeCommas(text) ==
    FilterNonEmpty(MapTrim(Split([k \in 1..Len(text) |->
                                     IF text[k] = "," THEN "\n" ELSE text[k]],
                                 "\n")))

\* rawCards.split(/\n/).map(c => c.trim()).filter(c => c)
Normalize(text) == FilterNonEmpty(MapTrim(Split(text, "\n")))

\* A slip: keys the product already holds are skipped (as an INSERT with ON
\* CONFLICT DO NOTHING under the legacy index would)
InsertRowsSkippingKnown(productId, batch, firstId) ==
    LET known(key) == \E n \in 1..Len(cards) :
                         /\ cards[n].productId = productId
                         /\ cards[n].cardKey = key
        fresh == SelectSeq(batch, LAMBDA key : ~known(key))
    IN  [k \in 1..Len(fresh) |->
            Row(firstId + k - 1, productId, fresh[k], <<FALSE>>, <<>>)]

\* batch.map(key => ({ productId, cardKey: key })) as the rows the INSERT
\* creates: ids from the autoincrement, is_used at its default, reserved_at
\* NULL.
InsertRows(productId, batch, firstId) ==
    [k \in 1..Len(batch) |->
        Row(firstId + k - 1, productId, batch[k], <<FALSE>>, <<>>)]

\* The legacy unique index on (product_id, card_key) rejects the INSERT when
\* it would hold two equal pairs.
ViolatesUnique(table, rows) ==
    \/ \E a \in 1..Len(rows), b \in 1..Len(table) :
          /\ rows[a].productId = table[b].productId
          /\ rows[a].cardKey = table[b].cardKey
    \/ \E a, b \in 1..Len(rows) :
          /\ a # b
          /\ rows[a].productId = rows[b].productId
          /\ rows[a].cardKey = rows[b].cardKey

\* db.query.cards.findFirst({ where: eq(cards.id, cardId) }): <<>> or <<row>>
FindFirst(table, cardId) ==
    LET hits == SelectSeq(table, LAMBDA r : r.id = cardId)
    IN  IF hits = <<>> THEN <<>> ELSE <<hits[1]>>

\* A slip: the reservation guard is left out
DeleteCardErrorNoWindow(card, t) ==
    IF card = <<>> THEN "Card not found"
    ELSE IF card[1].isUsed = <<TRUE>> THEN "Cannot delete used card"
    ELSE ""

\* The guards of deleteCard on the row it read, at time t: the message of the
\* error thrown, or "" when the delete goes ahead.
DeleteCardError(card, t) ==
    IF card = <<>> THEN "Card not found"
    ELSE IF card[1].isUsed = <<TRUE>> THEN "Cannot delete used card"
    ELSE IF /\ card[1].reservedAt # <<>>
            /\ card[1].reservedAt[1] > t - RESERVE_WINDOW_MS
         THEN "Cannot delete reserved card"
    ELSE ""

\* unixepoch() * 1000: the clock in whole seconds, as ms
UnixEpochMs(t) == (t \div MS_PER_SECOND) * MS_PER_SECOND

\* The WHERE clause of deleteAllCards on one row, at time t
DeleteAllMatches(r, productId, t) ==
    /\ r.productId = productId
    /\ (r.isUsed = <<>> \/ r.isUsed = <<FALSE>>)
    /\ \/ r.reservedAt = <<>>
       \/ r.reservedAt[1] < UnixEpochMs(t) - RESERVE_WINDOW_MS


(***************************************************************************)
(* The card actions, one step per awaited statement                        *)
(***************************************************************************)
SetCall(k, c) == calls' = [calls EXCEPT ![k] = c]

\* What an admitted call does between `await checkAdmin()` and its first
\* database statement.
AfterCheckAdmin(c) ==
    CASE c.op = "addCardsBatch" ->
            LET validKeys == ValidKeys(c.raw)
            IN  IF validKeys = <<>> THEN Return(c, 0, <<>>)
                ELSE [c EXCEPT !.st = "drop", !.keys = validKeys,
                               !.caller = Checked]
      [] c.op = "addCards" ->
            LET list == Normalize(c.text)
            IN  IF list = <<>> THEN Return(c, 0, <<>>)
                ELSE [c EXCEPT !.st = "drop", !.keys = list,
                               !.caller = Checked]
      [] c.op = "deleteCard" -> [c EXCEPT !.st = "find", !.caller = Checked]
      [] c.op = "deleteAllCards" ->
            [c EXCEPT !.st = "deleteAll", !.caller = Checked]
      [] c.op = "saveShopName" ->
            LET name == Trim(c.text)
            IN  IF name = <<>> THEN Throw(c, "Shop name cannot be empty")
                ELSE IF Len(name) > SHOP_NAME_MAX
                     THEN Throw(c, "Shop name is too long")
                ELSE [c EXCEPT !.st = "stmt", !.caller = Checked]
      [] c.op \in {"saveCategory", "deleteCategory"} ->
            [c EXCEPT !.st = "ensure", !.caller = Checked]
      [] OTHER -> [c EXCEPT !.st = "stmt", !.caller = Checked]

\* await checkAdmin(), the first statement of every action
CheckAdmin(k) ==
    /\ calls[k].st = "auth"
    /\ IF IsAdmin(calls[k].caller, adminUsersEnv)
       THEN SetCall(k, AfterCheckAdmin(calls[k]))
       ELSE SetCall(k, Throw(calls[k], "Unauthorized"))
    /\ UNCHANGED <<adminUsersEnv, storage, now, redeems, ticks,
                   clientVars>>

\* try { await db.run(sql`DROP INDEX IF EXISTS ...`) } catch { }
DropIndex(k) ==
    /\ calls[k].st = "drop"
    /\ \/ uqIndex' = FALSE
       \/ uqIndex' = uqIndex
    /\ SetCall(k, [calls[k] EXCEPT !.st = "insert"])
    /\ UNCHANGED <<adminUsersEnv, cards, nextId, shop, now, redeems, ticks, clientVars>>

\* A slip: the slice ends one element early
InsertChunkShort(keys, j) == Slice(keys, j, j + INSERT_BATCH_SIZE - 1)

\* The sub-chunk of validKeys the loop of addCards / addCardsBatch inserts
\* at offset j
InsertChunk(keys, j) == Slice(keys, j, j + INSERT_BATCH_SIZE)

\* The call after one INSERT of the loop succeeded: the next iteration, or
\* the three revalidatePath calls and the return.
AfterInsert(c) ==
    LET c2 == [c EXCEPT !.j = c.j + INSERT_BATCH_SIZE]
    IN  IF c2.j < Len(c.keys) THEN c2
        ELSE Return(c2, IF c.op = "addCardsBatch" THEN Len(c.keys) ELSE 0,
                    CardPaths(c.productId))

\* await db.insert(cards).values(batch.map(...)), one iteration of the loop
InsertBatch(k) ==
    LET c == calls[k]
        rows == InsertRows(c.productId, InsertChunk(c.keys, c.j), nextId)
    IN  /\ c.st = "insert"
        /\ IF uqIndex /\ ViolatesUnique(cards, rows)
           THEN /\ SetCall(k, Throw(c, "UNIQUE constraint failed"))
                /\ UNCHANGED <<cards, nextId>>
           ELSE /\ cards' = cards \o rows
                /\ nextId' = nextId + Len(rows)
                /\ SetCall(k, AfterInsert(c))
        /\ UNCHANGED <<adminUsersEnv, uqIndex, shop, now, redeems, ticks, clientVars>>

\* const card = await db.query.cards.findFirst(...) and the guards on it
FindCard(k) ==
    LET c == calls[k]
        e == DeleteCardError(FindFirst(cards, c.cardId), now)
    IN  /\ c.st = "find"
        /\ SetCall(k, IF e = "" THEN [c EXCEPT !.st = "delete"] ELSE Throw(c, e))
        /\ UNCHANGED <<adminUsersEnv, storage, now, redeems,
                       ticks, clientVars>>

\* await db.delete(cards).where(eq(cards.id, cardId)) and the revalidation
DeleteCardRow(k) ==
    LET c == calls[k]
    IN  /\ c.st = "delete"
        /\ cards' = SelectSeq(cards, LAMBDA r : r.id # c.cardId)
        /\ SetCall(k, Return(c, 0, DeleteCardPaths))
        /\ UNCHANGED <<adminUsersEnv, nextId, uqIndex, shop, now,
                       redeems, ticks, clientVars>>

\* The single DELETE ... RETURNING of deleteAllCards and the revalidation
DeleteAllCards(k) ==
    LET c == calls[k]
        hit(r) == DeleteAllMatches(r, c.productId, now)
    IN  /\ c.st = "deleteAll"
        /\ cards' = SelectSeq(cards, LAMBDA r : ~hit(r))
        /\ SetCall(k, Return(c, Len(SelectSeq(cards, hit)), CardPaths(c.productId)))
        /\ UNCHANGED <<adminUsersEnv, nextId, uqIndex, shop, now,
                       redeems, ticks, clientVars>>

\* A database statement that is not wrapped in try/catch rejects: the error
\* propagates out of the action.
StorageError(k) ==
    /\ calls[k].st \in {"insert", "find", "delete", "deleteAll", "stmt"}
    /\ SetCall(k, Throw(calls[k], "D1_ERROR"))
    /\ UNCHANGED <<adminUsersEnv, storage, now, redeems, ticks,
                   clientVars>>

(***************************************************************************)
(* The product, category, settings and review actions                      *)
(***************************************************************************)
Digits == <<"0", "1", "2", "3", "4", "5", "6", "7", "8", "9">>

IsDigit(c) == \E d \in 1..10 : Digits[d] = c

DigitValue(c) == (CHOOSE d \in 1..10 : Digits[d] = c) - 1

RECURSIVE LeadingNumber(_, _)
LeadingNumber(s, acc) ==
    IF s = <<>> \/ ~IsDigit(Head(s)) THEN acc
    ELSE LeadingNumber(Tail(s), 10 * acc + DigitValue(Head(s)))

\* Number.parseInt(s, 10) on an unsigned input: <<>> is NaN
ParseInt(s) ==
    LET t == TrimStart(s)
    IN  IF t = <<>> \/ ~IsDigit(Head(t)) THEN <<>> ELSE <<LeadingNumber(t, 0)>>

RECURSIVE NumberToString(_)
\* String(n) for n >= 0
NumberToString(n) ==
    IF n < 10 THEN <<Digits[n + 1]>>
    ELSE Append(NumberToString(n \div 10), Digits[(n % 10) + 1])

\* Number.isFinite(n) && n > 0 ? String(n) : String(default)
PositiveOr(raw, default) ==
    LET n == ParseInt(Trim(raw))
    IN  IF n # <<>> /\ n[1] > 0 THEN NumberToString(n[1]) ELSE NumberToString(default)

HasCategory(sh, name) ==
    \E n \in 1..Len(sh.categories) : sh.categories[n].name = name

\* INSERT INTO categories (name, ...) ... ON CONFLICT (name) DO NOTHING
WithCategory(sh, name) ==
    IF HasCategory(sh, name) THEN sh
    ELSE [sh EXCEPT !.categories = Append(@, [id |-> sh.nextCategoryId,
                                               name |-> name]),
                    !.nextCategoryId = @ + 1]

\* setSetting(key, value)
WithSetting(sh, key, value) == [sh EXCEPT !.settings[key] = <<value>>]

\* saveProduct after checkAdmin: doSave, and when the columns are missing
\* (error 42703) the two ALTER TABLE and doSave again.  text is the
\* category field, productId the id field ("" when the form has none).
SaveProduct(sh, c) ==
    LET id == IF c.productId = "" THEN "prod_now" ELSE c.productId
        sh1 == IF c.text = <<>> THEN sh
               ELSE WithCategory([sh EXCEPT !.categoriesTable = TRUE], c.text)
    IN  [sh1 EXCEPT !.productColumns = TRUE,
                    !.products[id] =
                        IF @ = <<>>
                        THEN << [isActive |-> TRUE, sortOrder |-> 0,
                                 category |-> c.text] >>
                        ELSE << [@[1] EXCEPT !.category = c.text] >>]

\* saveCategory after ensureCategoriesTable and the name check: num is the
\* id field (0 when the form has none), text the name field
SaveCategory(sh, c) ==
    LET name == Trim(c.text)
    IN  IF c.num # 0
        THEN [sh EXCEPT !.categories =
                [n \in 1..Len(@) |->
                    IF @[n].id = c.num THEN [@[n] EXCEPT !.name = name]
                    ELSE @[n]]]
        ELSE [sh EXCEPT !.categories = Append(@, [id |-> sh.nextCategoryId,
                                                   name |-> name]),
                        !.nextCategoryId = @ + 1]

\* categories_name_uq rejects a statement that leaves two equal names
CategoryNamesUnique(sh) ==
    \A a, b \in 1..Len(sh.categories) :
        sh.categories[a].name = sh.categories[b].name => a = b

\* The tables after the statement(s) of a product, settings or review action
ShopEffect(sh, c) ==
    CASE c.op = "saveProduct" -> SaveProduct(sh, c)
      [] c.op = "deleteProduct" ->
            [sh EXCEPT !.products[c.productId] = <<>>]
      [] c.op = "toggleProductStatus" ->
            [sh EXCEPT !.products[c.productId] =
                IF @ = <<>> THEN @ ELSE << [@[1] EXCEPT !.isActive = c.flag] >>]
      [] c.op = "reorderProduct" ->
            [sh EXCEPT !.products[c.productId] =
                IF @ = <<>> THEN @ ELSE << [@[1] EXCEPT !.sortOrder = c.num] >>]
      [] c.op = "saveShopName" ->
            WithSetting([sh EXCEPT !.settingsTable = TRUE], "shop_name",
                        Trim(c.text))
      [] c.op = "deleteReview" -> [sh EXCEPT !.reviews = @ \ {c.num}]
      [] c.op = "saveLowStockThreshold" ->
            WithSetting(sh, "low_stock_threshold",
                        PositiveOr(c.text, LOW_STOCK_DEFAULT))
      [] c.op = "saveCheckinReward" ->
            WithSetting(sh, "checkin_reward",
                        PositiveOr(c.text, CHECKIN_REWARD_DEFAULT))
      [] c.op = "saveCheckinEnabled" ->
            WithSetting(sh, "checkin_enabled",
                        IF c.flag THEN <<"t", "r", "u", "e">>
                        ELSE <<"f", "a", "l", "s", "e">>)
      [] c.op = "saveCategory" -> SaveCategory(sh, c)
      [] c.op = "deleteCategory" ->
            [sh EXCEPT !.categories = SelectSeq(@, LAMBDA r : r.id # c.num)]

\* The statement fails in the database: a setting written while the settings
\* table is missing (only saveShopName creates it), a category name taken
ShopRejects(sh, c) ==
    \/ /\ c.op \in {"saveLowStockThreshold", "saveCheckinReward",
                    "saveCheckinEnabled"}
       /\ ~sh.settingsTable
    \/ /\ c.op = "saveCategory"
       /\ ~CategoryNamesUnique(SaveCategory(sh, c))

\* The revalidatePath calls of a product, settings or review action
ShopPaths(op) ==
    CASE op \in {"saveProduct", "deleteProduct", "toggleProductStatus",
                 "reorderProduct", "saveCheckinEnabled"} ->
            << <<"/admin">>, <<"/">> >>
      [] op = "saveShopName" -> << <<"/">>, <<"/admin">> >>
      [] op = "deleteReview" -> << <<"/admin/reviews">> >>
      [] op \in {"saveLowStockThreshold", "saveCheckinReward"} ->
            << <<"/admin">> >>
      [] op \in {"saveCategory", "deleteCategory"} ->
            << <<"/admin/categories">>, <<"/">> >>

\* await ensureCategoriesTable(), and the name check of saveCategory
EnsureCategoriesTable(k) ==
    LET c == calls[k]
    IN  /\ c.st = "ensure"
        /\ shop' = [shop EXCEPT !.categoriesTable = TRUE]
        /\ SetCall(k, IF c.op = "saveCategory" /\ Trim(c.text) = <<>>
                      THEN Throw(c, "Category name is required")
                      ELSE [c EXCEPT !.st = "stmt"])
        /\ UNCHANGED <<adminUsersEnv, cards, nextId, uqIndex, now, redeems,
                       ticks, clientVars>>

\* The statement(s) of a product, settings or review action, then its
\* revalidation
ShopStatement(k) ==
    LET c == calls[k]
    IN  /\ c.st = "stmt"
        /\ IF ShopRejects(shop, c)
           THEN /\ SetCall(k, Throw(c, "D1_ERROR"))
                /\ UNCHANGED shop
           ELSE /\ shop' = ShopEffect(shop, c)
                /\ SetCall(k, Return(c, 0, ShopPaths(c.op)))
        /\ UNCHANGED <<adminUsersEnv, cards, nextId, uqIndex, now, redeems,
                       ticks, clientVars>>

(***************************************************************************)
(* The redemption flow and the clock                                       *)
(***************************************************************************)
\* The redemption flow reserves an unused card: reserved_at becomes now
Reserve(n) ==
    /\ redeems < MaxRedeem
    /\ cards[n].isUsed # <<TRUE>>
    /\ cards' = [cards EXCEPT ![n].reservedAt = <<now>>]
    /\ redeems' = redeems + 1
    /\ UNCHANGED <<adminUsersEnv, nextId, uqIndex, shop, now, calls,
                   ticks, clientVars>>

\* The redemption flow hands a card out: is_used becomes true
MarkUsed(n) ==
    /\ redeems < MaxRedeem
    /\ cards[n].isUsed # <<TRUE>>
    /\ cards' = [cards EXCEPT ![n].isUsed = <<TRUE>>]
    /\ redeems' = redeems + 1
    /\ UNCHANGED <<adminUsersEnv, nextId, uqIndex, shop, now, calls,
                   ticks, clientVars>>

TickSteps == {500, 30000}

\* Time passes
Tick(d) ==
    /\ ticks < MaxTicks
    /\ now' = now + d
    /\ ticks' = ticks + 1
    /\ UNCHANGED <<adminUsersEnv, storage, calls, redeems,
                   clientVars>>


(***************************************************************************)
(* Initial states                                                          *)
(***************************************************************************)
\* The upload component as it is mounted, the user choosing no file
ClientInit ==
    /\ uploading = FALSE
    /\ progress = 0
    /\ totalCount = 0
    /\ processedCount = 0
    /\ pc = "idle"
    /\ file = 0
    /\ cardList = <<>>
    /\ i = 0
    /\ successCount = 0
    /\ toasts = <<>>
    /\ plan = <<>>
    /\ startRows = 0

\* The other tables: two products, one category, no setting, two reviews.
\* categoriesTable / settingsTable / productColumns say whether the table or
\* the columns compare_at_price and is_hot exist yet.
ShopInit ==
    [products |-> [p \in ShopProductIds |->
                      IF p \in ProductIds
                      THEN << [isActive |-> TRUE, sortOrder |-> 0,
                               category |-> <<"c">>] >>
                      ELSE <<>>],
     productColumns |-> FALSE,
     categoriesTable |-> TRUE,
     categories |-> << [id |-> 1, name |-> <<"c">>] >>,
     nextCategoryId |-> 2,
     settingsTable |-> FALSE,
     settings |-> [s \in SettingKeys |-> <<>>],
     reviews |-> {1, 2}]

\* The inventory at the start.  p1: three free cards (one with is_used
\* NULL, one whose reservation is 90 s old) and two used ones; p2: a free
\* card and cards reserved 30 s and exactly 60 s before StartTime.
Seed ==
    << Row(1, "p1", <<"k", "1">>, <<FALSE>>, <<>>),
       Row(2, "p1", <<"k", "2">>, <<>>, <<>>),
       Row(3, "p1", <<"k", "3">>, <<FALSE>>, <<StartTime - 90000>>),
       Row(4, "p1", <<"k", "4">>, <<TRUE>>, <<>>),
       Row(5, "p1", <<"k", "5">>, <<TRUE>>, <<StartTime - 90000>>),
       Row(6, "p2", <<"k", "1">>, <<FALSE>>, <<>>),
       Row(7, "p2", <<"k", "7">>, <<FALSE>>, <<StartTime - 30000>>),
       Row(8, "p2", <<"k", "8">>, <<>>, <<StartTime - 60000>>) >>

(***************************************************************************)
(* Direct invocations of the card actions (a server action is an endpoint  *)
(* any client can post to): the invocation under study is an input         *)
(***************************************************************************)
\* cardKeys arguments: the empty list, the list of the spec's example, a
\* list of blanks, and twelve keys with repeats and a comma
RawKeyLists ==
    { <<>>,
      << <<" ", "a", " ">>, <<>>, <<"b", "\t">>, <<" ", " ", " ">> >>,
      << <<>>, <<" ">>, <<"\t", " ">> >>,
      << <<"a">>, <<"b">>, <<"a", ",", "b">>, <<" ", "a">>, <<"c">>, <<"d">>,
         <<>>, <<"e">>, <<"f">>, <<"g">>, <<"h">>, <<"k", "1">>, <<"b">>,
         <<"z">> >> }

\* The cards field of the manual form
RawTexts ==
    { <<" ", "\n", "\t">>,
      <<"a", ",", "b", "\n", " ", "b", " ", "\n", "\n", "a", ",", "b">> }

CardCallers == {User(<<"A">>), User(<<"b">>)}

CardCalls ==
    {NewCall("direct", "addCardsBatch", u, "p1", raw, <<>>, 0) :
        u \in CardCallers, raw \in RawKeyLists}
    \cup {NewCall("direct", "addCards", u, "p1", <<>>, text, 0) :
        u \in CardCallers, text \in RawTexts}
    \cup {NewCall("direct", "deleteAllCards", u, p, <<>>, <<>>, 0) :
        u \in CardCallers, p \in ProductIds}
    \cup {NewCall("direct", "deleteCard", u, "", <<>>, <<>>, id) :
        u \in CardCallers, id \in 0..Len(Seed)}

Init ==
    /\ adminUsersEnv = << <<"A", ",", "b", "C">> >>
    /\ cards = Seed
    /\ nextId = Len(cards) + 1
    /\ uqIndex \in BOOLEAN
    /\ shop = ShopInit
    /\ now = StartTime
    /\ \E c \in CardCalls : calls = <<c>>
    /\ redeems = 0
    /\ ticks = 0
    /\ ClientInit

\* The response of a direct invocation reaches its client
ReceiveResponse ==
    /\ calls # <<>>
    /\ calls[1].origin = "direct"
    /\ calls[1].st = "done"
    /\ calls' = Tail(calls)
    /\ UNCHANGED <<adminUsersEnv, storage, now, redeems, ticks,
                   clientVars>>

Next ==
    \/ \E k \in 1..Len(calls) : CheckAdmin(k)
    \/ \E k \in 1..Len(calls) : DropIndex(k)
    \/ \E k \in 1..Len(calls) : InsertBatch(k)
    \/ \E k \in 1..Len(calls) : FindCard(k)
    \/ \E k \in 1..Len(calls) : DeleteCardRow(k)
    \/ \E k \in 1..Len(calls) : DeleteAllCards(k)
    \/ \E k \in 1..Len(calls) : StorageError(k)
    \/ ReceiveResponse
    \/ \E n \in 1..Len(cards) : Reserve(n)
    \/ \E n \in 1..Len(cards) : MarkUsed(n)
    \/ \E d \in TickSteps : Tick(d)

\* One invocation of a card action against the seeded inventory, with the
\* redemption flow and the clock running beside it
Spec == Init /\ [][Next]_vars


(***************************************************************************)
(* The upload component: handleFileUpload, one step per awaited call, and  *)
(* one more between setProgress and the next turn of the loop              *)
(***************************************************************************)
\* The component's productId prop
UploadProduct == "p1"

\* Line n of a generated file, four characters wide: every tenth line is
\* blank, the others hold a two-digit number below 37 (so keys repeat) with
\* white space around it
FileLine(n) ==
    IF n % 10 = 0 THEN <<" ", " ", " ", " ">>
    ELSE <<" ", Digits[((n % 37) \div 10) + 1], Digits[((n % 37) % 10) + 1],
           IF n % 2 = 0 THEN "\t" ELSE "z">>

\* The text of n generated lines, joined by newlines
JoinLines(n) ==
    [k \in 1..(5 * n - 1) |->
        IF k % 5 = 0 THEN "\n" ELSE FileLine(((k - 1) \div 5) + 1)[((k - 1) % 5) + 1]]

\* The files the user may choose: a file is named by its number of lines;
\* 0 is a file of blanks, 4 a short file with a comma and a repeated key.
\* The generated ones hold 51, 100 and (112 lines) 101 keys.
FileSizes == {0, 4, 56, 111, MaxLines}

\* await file.text()
FileText(f) ==
    CASE f = 0 -> <<" ", "\n", "\n", "\t">>
      [] f = 4 -> <<"a", ",", "b", "\n", " ", "b", " ", "\n", "\n",
                    "a", ",", "b", "\n">>
      [] OTHER -> JoinLines(f)

\* What the user goes on to do: one file, or two files one after the other
\* (the same file twice among them)
UploadPlans ==
    {<<f>> : f \in FileSizes} \cup {<<f, g>> : f \in FileSizes, g \in FileSizes}

\* The sessions the upload's calls may run under (a session can end while
\* the upload runs)
UploadCallers == {User(<<"a">>), NoSession}

\* addCardsBatch(productId, batch) as the component calls it
UploadCall(batch, u) ==
    NewCall("upload", "addCardsBatch", u, UploadProduct, batch, <<>>, 0)

\* A slip: the slice ends one key early
BatchShort(list, offset) == Slice(list, offset, offset + BATCH_SIZE - 1)

\* const batch = cardList.slice(i, i + BATCH_SIZE)
Batch(list, offset) == Slice(list, offset, offset + BATCH_SIZE)

\* A slip: the call is not awaited, the loop goes on at once
PcNoAwait == "progress"

\* Where handleFileUpload stands once it has called addCardsBatch: at the
\* await
PcAfterCall == "awaiting"

\* A slip: the count of the last batch replaces the sum
AccumulateLast(sum, n) == n

\* successCount += result.success
Accumulate(sum, n) == sum + n

\* setProcessedCount(Math.min(i + BATCH_SIZE, cardList.length))
ProcessedAfter(offset, total) == Min(offset + BATCH_SIZE, total)

\* setProgress(Math.round(((i + BATCH_SIZE) / cardList.length) * 100))
ProgressAfter(offset, total) == RoundPercent(offset + BATCH_SIZE, total)

\* toast.success / toast.error: the notification, with the file of the
\* session it belongs to
Toast(kind, count, msg) ==
    toasts' = Append(toasts, [kind |-> kind, count |-> count, msg |-> msg,
                              file |-> file])

\* A slip: the finally block forgets the counters
FinallyKeepsCounters ==
    /\ uploading' = FALSE
    /\ UNCHANGED <<progress, processedCount, totalCount>>
    /\ file' = 0
    /\ cardList' = <<>>
    /\ i' = 0
    /\ successCount' = 0

\* The finally block: the four setters and the file input cleared; the
\* locals of the handler are gone with it
Finally ==
    /\ uploading' = FALSE
    /\ progress' = 0
    /\ processedCount' = 0
    /\ totalCount' = 0
    /\ file' = 0
    /\ cardList' = <<>>
    /\ i' = 0
    /\ successCount' = 0

\* A slip: the file input is never disabled
CanChooseFileAlways == TRUE

\* <input type="file" disabled={uploading}>
CanChooseFile == ~uploading

\* onChange of the file input: a file was chosen; the state is reset and
\* file.text() awaited
StartUpload ==
    /\ CanChooseFile
    /\ plan # <<>>
    /\ file' = Head(plan)
    /\ plan' = Tail(plan)
    /\ uploading' = TRUE
    /\ progress' = 0
    /\ processedCount' = 0
    /\ totalCount' = 0
    /\ pc' = "reading"
    /\ startRows' = Len(cards)
    /\ UNCHANGED <<adminUsersEnv, storage, now, calls, redeems, ticks,
                   cardList, i, successCount, toasts>>

\* file.text() resolved: the list is built; an empty list ends the session,
\* otherwise the first batch is sent
ReadFile ==
    /\ pc = "reading"
    /\ LET list == Normalize(FileText(file))
       IN  IF list = <<>>
           THEN /\ Toast("error", 0, "admin.cards.noCards")
                /\ Finally
                /\ pc' = "idle"
                /\ UNCHANGED calls
           ELSE /\ totalCount' = Len(list)
                /\ cardList' = list
                /\ successCount' = 0
                /\ i' = 0
                /\ \E u \in UploadCallers :
                      calls' = Append(calls, UploadCall(Batch(list, 0), u))
                /\ pc' = PcAfterCall
                /\ UNCHANGED <<uploading, progress, processedCount, file,
                               toasts>>
    /\ UNCHANGED <<adminUsersEnv, storage, now, redeems, ticks, plan,
                   startRows>>

\* The calls except the k-th
Without(seq, k) == SubSeq(seq, 1, k - 1) \o SubSeq(seq, k + 1, Len(seq))

\* await addCardsBatch(...) resolved: the count is added and the progress
\* state set
BatchReturned(k) ==
    /\ pc = "awaiting"
    /\ calls[k].origin = "upload"
    /\ calls[k].st = "done"
    /\ calls[k].ok
    /\ successCount' = Accumulate(successCount, calls[k].val)
    /\ processedCount' = ProcessedAfter(i, Len(cardList))
    /\ progress' = ProgressAfter(i, Len(cardList))
    /\ calls' = Without(calls, k)
    /\ pc' = "progress"
    /\ UNCHANGED <<adminUsersEnv, storage, now, redeems, ticks, uploading,
                   totalCount, file, cardList, i, toasts, plan, startRows>>

\* await addCardsBatch(...) rejected: catch shows the message, finally
\* resets the state
BatchFailed(k) ==
    /\ pc = "awaiting"
    /\ calls[k].origin = "upload"
    /\ calls[k].st = "done"
    /\ ~calls[k].ok
    /\ Toast("error", 0, calls[k].err)
    /\ Finally
    /\ calls' = Without(calls, k)
    /\ pc' = "idle"
    /\ UNCHANGED <<adminUsersEnv, storage, now, redeems, ticks, plan,
                   startRows>>

\* i += BATCH_SIZE and the test of the loop: the next batch is sent, or the
\* loop is left: toast.success with the count, then finally
NextBatch ==
    /\ pc = "progress"
    /\ IF i + BATCH_SIZE < Len(cardList)
       THEN /\ i' = i + BATCH_SIZE
            /\ \E u \in UploadCallers :
                  calls' = Append(calls,
                                  UploadCall(Batch(cardList, i + BATCH_SIZE), u))
            /\ pc' = PcAfterCall
            /\ UNCHANGED <<uploading, progress, processedCount, totalCount,
                           file, cardList, successCount, toasts>>
       ELSE /\ Toast("success", successCount, "admin.cards.uploadSuccess")
            /\ Finally
            /\ pc' = "idle"
            /\ UNCHANGED calls
    /\ UNCHANGED <<adminUsersEnv, storage, now, redeems, ticks, plan,
                   startRows>>

\* The inventory before an upload: empty, or a card of another product
\* whose key the files hold too
UploadSeeds == { <<>>, << Row(1, "p2", <<"b">>, <<FALSE>>, <<>>) >> }

InitUpload ==
    /\ adminUsersEnv = << <<"A", ",", "b", "C">> >>
    /\ cards \in UploadSeeds
    /\ nextId = Len(cards) + 1
    /\ uqIndex \in BOOLEAN
    /\ shop = ShopInit
    /\ now = StartTime
    /\ calls = <<>>
    /\ redeems = 0
    /\ ticks = 0
    /\ uploading = FALSE
    /\ progress = 0
    /\ totalCount = 0
    /\ processedCount = 0
    /\ pc = "idle"
    /\ file = 0
    /\ cardList = <<>>
    /\ i = 0
    /\ successCount = 0
    /\ toasts = <<>>
    /\ plan \in UploadPlans
    /\ startRows = 0

NextUpload ==
    \/ StartUpload
    \/ ReadFile
    \/ \E k \in 1..Len(calls) : BatchReturned(k)
    \/ \E k \in 1..Len(calls) : BatchFailed(k)
    \/ NextBatch
    \/ \E k \in 1..Len(calls) : CheckAdmin(k)
    \/ \E k \in 1..Len(calls) : DropIndex(k)
    \/ \E k \in 1..Len(calls) : InsertBatch(k)
    \/ \E k \in 1..Len(calls) : StorageError(k)

\* The user uploads one file or two into the empty inventory of p1; every
\* statement of the writer may fail, and the session may be gone at any call
SpecUpload == InitUpload /\ [][NextUpload]_vars

(***************************************************************************)
(* The component with both ways of adding cards: the file input and the    *)
(* manual form                                                             *)
(***************************************************************************)
\* Bound: how many things the user goes on to do with the component
MaxActs == 3

\* In a plan: the user submits the manual form
ManualEntry == -1

\* The files the user may choose here
FormFileSizes == {0, 4, 56}

\* What the user may type into the textarea (it is required: never empty)
FormTexts == { <<"x", ",", "y", "\n", " ", "\n", "x", ",", "y">>, <<" ", "\n">> }

\* The sequences over S of length n
Tuples(S, n) == [1..n -> S]

\* What the user goes on to do, in order: choose a file or submit the form
ActPlans ==
    UNION {Tuples(FormFileSizes \cup {ManualEntry}, n) : n \in 1..MaxActs}

\* <Textarea disabled={uploading}> and <Button type="submit"
\* disabled={uploading}>
CanSubmitForm == ~uploading

\* onChange of the file input, when the user's next act is to choose a file
ChooseFile ==
    /\ plan # <<>>
    /\ Head(plan) # ManualEntry
    /\ StartUpload

\* The form is submitted: handleSubmit calls addCards(formData) and awaits
SubmitForm ==
    /\ CanSubmitForm
    /\ plan # <<>>
    /\ Head(plan) = ManualEntry
    /\ plan' = Tail(plan)
    /\ \E text \in FormTexts :
          calls' = Append(calls, NewCall("form", "addCards", User(<<"a">>),
                                         UploadProduct, <<>>, text, 0))
    /\ UNCHANGED <<adminUsersEnv, storage, now, redeems, ticks, uploading,
                   progress, totalCount, processedCount, pc, file, cardList,
                   i, successCount, toasts, startRows>>

\* await addCards(formData) settled: toast.success(t('common.success')) or
\* toast.error(e.message)
FormSettled(k) ==
    /\ calls[k].origin = "form"
    /\ calls[k].st = "done"
    /\ toasts' = Append(toasts,
                        [kind |-> IF calls[k].ok THEN "success" ELSE "error",
                         count |-> 0,
                         msg |-> IF calls[k].ok THEN "common.success"
                                 ELSE calls[k].err,
                         file |-> ManualEntry])
    /\ calls' = Without(calls, k)
    /\ UNCHANGED <<adminUsersEnv, storage, now, redeems, ticks, uploading,
                   progress, totalCount, processedCount, pc, file, cardList,
                   i, successCount, plan, startRows>>

InitComponent ==
    /\ adminUsersEnv = << <<"A", ",", "b", "C">> >>
    /\ cards = <<>>
    /\ nextId = 1
    /\ uqIndex \in BOOLEAN
    /\ shop = ShopInit
    /\ now = StartTime
    /\ calls = <<>>
    /\ redeems = 0
    /\ ticks = 0
    /\ uploading = FALSE
    /\ progress = 0
    /\ totalCount = 0
    /\ processedCount = 0
    /\ pc = "idle"
    /\ file = 0
    /\ cardList = <<>>
    /\ i = 0
    /\ successCount = 0
    /\ toasts = <<>>
    /\ plan \in ActPlans
    /\ startRows = 0

NextComponent ==
    \/ ChooseFile
    \/ SubmitForm
    \/ ReadFile
    \/ \E k \in 1..Len(calls) : BatchReturned(k)
    \/ \E k \in 1..Len(calls) : BatchFailed(k)
    \/ NextBatch
    \/ \E k \in 1..Len(calls) : FormSettled(k)
    \/ \E k \in 1..Len(calls) : CheckAdmin(k)
    \/ \E k \in 1..Len(calls) : DropIndex(k)
    \/ \E k \in 1..Len(calls) : InsertBatch(k)
    \/ \E k \in 1..Len(calls) : StorageError(k)

\* The user chooses files and submits the form, in any order they can
SpecComponent == InitComponent /\ [][NextComponent]_vars

(***************************************************************************)
(* Every admin action, from every kind of caller                           *)
(***************************************************************************)
NewShopCall(op, caller, productId, text, num, flag) ==
    [NewCall("direct", op, caller, productId, <<>>, text, 0)
        EXCEPT !.num = num, !.flag = flag]

LongName == [n \in 1..(SHOP_NAME_MAX + 1) |-> "x"]

AdminCalls(u) ==
    {NewCall("direct", "addCardsBatch", u, "p1", raw, <<>>, 0) :
        raw \in {<<>>, << <<" ", "a">>, <<"b">> >>}}
    \cup {NewCall("direct", "addCards", u, "p1", <<>>, <<"a", "\n", "b">>, 0),
          NewCall("direct", "deleteCard", u, "", <<>>, <<>>, 1),
          NewCall("direct", "deleteAllCards", u, "p1", <<>>, <<>>, 0),
          NewShopCall("saveProduct", u, "", <<"d">>, 0, FALSE),
          NewShopCall("saveProduct", u, "p1", <<>>, 0, FALSE),
          NewShopCall("deleteProduct", u, "p2", <<>>, 0, FALSE),
          NewShopCall("toggleProductStatus", u, "p1", <<>>, 0, FALSE),
          NewShopCall("reorderProduct", u, "p2", <<>>, 3, FALSE),
          NewShopCall("saveShopName", u, "", <<" ", "s", " ">>, 0, FALSE),
          NewShopCall("saveShopName", u, "", <<" ">>, 0, FALSE),
          NewShopCall("saveShopName", u, "", LongName, 0, FALSE),
          NewShopCall("deleteReview", u, "", <<>>, 1, FALSE),
          NewShopCall("saveLowStockThreshold", u, "", <<" ", "1", "2", "x">>, 0, FALSE),
          NewShopCall("saveLowStockThreshold", u, "", <<"0">>, 0, FALSE),
          NewShopCall("saveCheckinReward", u, "", <<"x">>, 0, FALSE),
          NewShopCall("saveCheckinEnabled", u, "", <<>>, 0, TRUE),
          NewShopCall("saveCategory", u, "", <<"e", " ">>, 0, FALSE),
          NewShopCall("saveCategory", u, "", <<"c">>, 0, FALSE),
          NewShopCall("saveCategory", u, "", <<" ">>, 1, FALSE),
          NewShopCall("saveCategory", u, "", <<"f">>, 1, FALSE),
          NewShopCall("deleteCategory", u, "", <<>>, 1, FALSE)}

InitAdmin ==
    /\ adminUsersEnv \in AdminEnvs
    /\ cards = Seed
    /\ nextId = Len(cards) + 1
    /\ uqIndex \in BOOLEAN
    /\ shop \in {ShopInit, [ShopInit EXCEPT !.settingsTable = TRUE,
                                           !.categoriesTable = FALSE,
                                           !.categories = <<>>]}
    /\ now = StartTime
    /\ \E u \in Callers : \E c \in AdminCalls(u) : calls = <<c>>
    /\ redeems = 0
    /\ ticks = 0
    /\ ClientInit

NextAdmin ==
    \/ \E k \in 1..Len(calls) : CheckAdmin(k)
    \/ \E k \in 1..Len(calls) : DropIndex(k)
    \/ \E k \in 1..Len(calls) : InsertBatch(k)
    \/ \E k \in 1..Len(calls) : FindCard(k)
    \/ \E k \in 1..Len(calls) : DeleteCardRow(k)
    \/ \E k \in 1..Len(calls) : DeleteAllCards(k)
    \/ \E k \in 1..Len(calls) : EnsureCategoriesTable(k)
    \/ \E k \in 1..Len(calls) : ShopStatement(k)
    \/ \E k \in 1..Len(calls) : StorageError(k)
    \/ ReceiveResponse

\* One invocation of any admin action, by any kind of caller, under any
\* setting of ADMIN_USERS
SpecAdmin == InitAdmin /\ [][NextAdmin]_vars

\*+claims
(***************************************************************************)
(* Vocabulary of the claims                                                *)
(***************************************************************************)
\* A key that is empty after trimming: it holds white space only
Blank(key) == \A n \in 1..Len(key) : IsSpace(key[n])

\* The keys of a raw list that are non-empty after trimming, trimmed, in
\* input order
Surviving(raw) ==
    LET kept == SelectSeq(raw, LAMBDA key : ~Blank(key))
    IN  [n \in 1..Len(kept) |-> Trim(kept[n])]

\* The row of the table with this id is present
Present(table, id) == \E n \in 1..Len(table) : table[n].id = id

\* A table with the is_used and reserved_at columns left out (the redemption
\* flow writes nothing else)
Identity(table) ==
    [n \in 1..Len(table) |->
        <<table[n].id, table[n].productId, table[n].cardKey>>]

\* The call of a direct invocation has taken a step
CallStepped == calls # <<>> /\ calls' # <<>> /\ calls'[1] # calls[1]

(***************************************************************************)
(* C1: when the caller of a mutating admin action is not a recognized      *)
(* administrator (no session user, no username, or a username that is not  *)
(* in the ADMIN_USERS list compared without regard to case), the call      *)
(* fails with Unauthorized at its first step, before any statement reaches *)
(* storage, and every table is as it was.                                  *)
(***************************************************************************)
SameIgnoringCase(a, b) == ToLowerCase(a) = ToLowerCase(b)

Recognized(caller, env) ==
    /\ caller.user
    /\ caller.hasName
    /\ caller.username # <<>>
    /\ env # <<>>
    /\ \E n \in 1..Len(Split(env[1], ",")) :
          SameIgnoringCase(Split(env[1], ",")[n], caller.username)

C1_UnauthorizedBeforeStorage ==
    [][(CallStepped /\ calls[1].st = "auth"
          /\ ~Recognized(calls[1].caller, adminUsersEnv))
        => /\ calls'[1].st = "done"
           /\ ~calls'[1].ok
           /\ calls'[1].err = "Unauthorized"
           /\ calls'[1].reval = <<>>
           /\ UNCHANGED storage]_vars

\* saveCategory was refused although the categories table is missing: not
\* even ensureCategoriesTable ran
C1_Witness ==
    /\ calls # <<>>
    /\ calls[1].op = "saveCategory"
    /\ calls[1].st = "done" /\ calls[1].err = "Unauthorized"
    /\ ~shop.categoriesTable
    /\ cards = Seed

(***************************************************************************)
(* C2: a successful addCardsBatch(productId, keys) returns success = the   *)
(* number of keys that are non-empty after trimming, and the table is the  *)
(* table before followed by one row per such key, in input order, with the *)
(* trimmed key and the given product; the rows are created unused and      *)
(* unreserved, and no earlier row is changed or removed.                   *)
(***************************************************************************)
C2_BatchInsertsSurvivingKeys ==
    \A k \in 1..Len(calls) :
        LET c == calls[k]
            want == Surviving(c.raw)
            added == [n \in 1..Len(want) |->
                        Row(Len(Seed) + n, c.productId, want[n], <<FALSE>>, <<>>)]
        IN  (c.origin = "direct" /\ c.op = "addCardsBatch" /\ c.st = "done" /\ c.ok)
            => /\ c.val = Len(want)
               /\ Identity(cards) = Identity(Seed \o added)
               /\ redeems = 0 => cards = Seed \o added

\* The fourteen-key list went in as thirteen rows, in two INSERT statements
C2_Witness ==
    /\ calls # <<>>
    /\ calls[1].op = "addCardsBatch" /\ calls[1].st = "done" /\ calls[1].ok
    /\ calls[1].val = 13
    /\ Len(cards) = Len(Seed) + 13

(***************************************************************************)
(* C3: deleteCard(cardId) goes on to delete exactly when the row it read   *)
(* exists, is not used and has no reservation with reservedAt > now - 60 s;*)
(* otherwise it throws "Card not found", "Cannot delete used card" or      *)
(* "Cannot delete reserved card", tested in that order, and leaves the     *)
(* table as it was; the delete removes that row and no other.  With the    *)
(* seeded cards: one reserved 30 s ago is refused, one reserved 90 s ago   *)
(* is deleted.                                                             *)
(***************************************************************************)
Deletable(table, id, t) ==
    \E n \in 1..Len(table) :
        /\ table[n].id = id
        /\ table[n].isUsed # <<TRUE>>
        /\ ~(table[n].reservedAt # <<>> /\ table[n].reservedAt[1] > t - 60000)

C3_DeleteCardGuards ==
    [][(CallStepped /\ calls[1].op = "deleteCard" /\ calls'[1].err # "D1_ERROR")
        => LET id == calls[1].cardId
               row == CHOOSE r \in {cards[n] : n \in 1..Len(cards)} : r.id = id
           IN  /\ calls[1].st = "find" =>
                    /\ cards' = cards
                    /\ IF Deletable(cards, id, now)
                       THEN calls'[1].st = "delete"
                       ELSE /\ calls'[1].st = "done" /\ ~calls'[1].ok
                            /\ calls'[1].err =
                                 IF ~Present(cards, id) THEN "Card not found"
                                 ELSE IF row.isUsed = <<TRUE>>
                                      THEN "Cannot delete used card"
                                 ELSE "Cannot delete reserved card"
               /\ calls[1].st = "delete" =>
                    /\ calls'[1].st = "done" /\ calls'[1].ok
                    /\ cards' = SelectSeq(cards, LAMBDA r : r.id # id)
               /\ (id = 7 /\ calls[1].st = "find" /\ now = StartTime
                     /\ cards[7].reservedAt = <<now - 30000>>
                     /\ cards[7].isUsed = <<FALSE>>)
                    => calls'[1].err = "Cannot delete reserved card"
               /\ (id = 3 /\ calls[1].st = "find" /\ now = StartTime
                     /\ cards[3].reservedAt = <<now - 90000>>
                     /\ cards[3].isUsed = <<FALSE>>)
                    => calls'[1].st = "delete"]_vars

\* The card reserved 90 s ago has been deleted, the one reserved 30 s ago
\* is still there
C3_Witness ==
    /\ calls # <<>>
    /\ calls[1].op = "deleteCard" /\ calls[1].cardId = 3
    /\ calls[1].st = "done" /\ calls[1].ok
    /\ ticks = 0 /\ redeems = 0
    /\ ~Present(cards, 3) /\ Present(cards, 7)

(***************************************************************************)
(* C4: deleteAllCards(productId) removes, in one step, exactly the rows of *)
(* the product whose used flag is false or absent and whose reservation is *)
(* absent or older than 60 seconds, returns their number, and leaves every *)
(* other row as it was.                                                    *)
(***************************************************************************)
SafelyDeletable(r, productId, t) ==
    /\ r.productId = productId
    /\ r.isUsed # <<TRUE>>
    /\ (r.reservedAt = <<>> \/ t - r.reservedAt[1] > 60000)

C4_DeleteAllRemovesDeletable ==
    [][(CallStepped /\ calls[1].op = "deleteAllCards" /\ calls[1].st = "deleteAll"
          /\ calls'[1].ok)
        => LET p == calls[1].productId
           IN  /\ cards' = SelectSeq(cards, LAMBDA r : ~SafelyDeletable(r, p, now))
               /\ calls'[1].val = Len(cards) - Len(cards')]_vars

(***************************************************************************)
(* C6: when every key passed to addCardsBatch is empty after trimming (the *)
(* empty list included), an authorized call returns { success: 0 } straight*)
(* from its first step: no statement reaches storage, storage is unchanged *)
(* and nothing is revalidated.                                             *)
(***************************************************************************)
C6_BlankBatchTouchesNothing ==
    [][(CallStepped /\ calls[1].op = "addCardsBatch" /\ calls[1].st = "auth"
          /\ IsAdmin(calls[1].caller, adminUsersEnv)
          /\ \A n \in 1..Len(calls[1].raw) : Blank(calls[1].raw[n]))
        => /\ calls'[1].st = "done" /\ calls'[1].ok /\ calls'[1].val = 0
           /\ calls'[1].reval = <<>>
           /\ UNCHANGED storage]_vars

\* The call with three blank keys has returned 0 and the inventory is the
\* seeded one
C6_Witness ==
    /\ calls # <<>>
    /\ calls[1].op = "addCardsBatch" /\ Len(calls[1].raw) = 3
    /\ calls[1].st = "done" /\ calls[1].ok /\ calls[1].val = 0
    /\ Identity(cards) = Identity(Seed)


(***************************************************************************)
(* Vocabulary of the upload claims                                         *)
(***************************************************************************)
\* N: the number of normalized keys of a file
KeyCount(f) == Len(Normalize(FileText(f)))

\* The calls of the upload that the component has not taken back yet
UploadCalls == SelectSeq(calls, LAMBDA c : c.origin = "upload")

\* The rows of the product of the component
ProductRows == SelectSeq(cards, LAMBDA r : r.productId = UploadProduct)

\* The keys of the rows written since the upload began, in table order
KeysSinceStart ==
    [n \in 1..(Len(cards) - startRows) |-> cards[startRows + n].cardKey]

Last(seq) == seq[Len(seq)]

C7_SequentialInOrder ==
    /\ Len(UploadCalls) <= 1
    /\ Len(UploadCalls) = 1 =>
          /\ pc = "awaiting"
          /\ UploadCalls[1].raw =
                SubSeq(cardList, i + 1, Min(i + 50, Len(cardList)))
    /\ pc \in {"awaiting", "progress"} =>
          /\ i % 50 = 0
          /\ i <= Len(KeysSinceStart)
          /\ Len(KeysSinceStart) <= Min(i + 50, Len(cardList))
          /\ KeysSinceStart = SubSeq(cardList, 1, Len(KeysSinceStart))
    /\ pc = "progress" => Len(KeysSinceStart) = Min(i + 50, Len(cardList))

\* The third batch of the 101-key file is in flight, the first two are stored
C7_Witness ==
    /\ pc = "awaiting" /\ i = 100 /\ Len(cardList) = 101
    /\ Len(UploadCalls) = 1 /\ UploadCalls[1].st = "insert"
    /\ Len(KeysSinceStart) = 100

(***************************************************************************)
(* C8: after the batch at offset i the progress state is processed =       *)
(* min(i + 50, total) and percent = round(processed / total * 100), and in *)
(* every state 0 <= processed <= total and 0 <= percent <= 100.            *)
(***************************************************************************)
C8_ProgressWithinBounds ==
    /\ 0 <= processedCount /\ processedCount <= totalCount
    /\ 0 <= progress /\ progress <= 100
    /\ pc = "progress" =>
          /\ processedCount = Min(i + 50, totalCount)
          /\ progress = RoundPercent(processedCount, totalCount)

(***************************************************************************)
(* C9: when the addCardsBatch call of a batch fails, the next step of the  *)
(* upload ends the session: the error is shown, no success is reported,    *)
(* uploading is false and progress, processed and total are 0, no call of  *)
(* the upload is left or sent, and the rows written before stay.           *)
(***************************************************************************)
C9_FailureEndsSession ==
    [][(/\ UploadCalls # <<>>
        /\ UploadCalls[1].st = "done"
        /\ ~UploadCalls[1].ok)
       => /\ pc' = "idle"
          /\ uploading' = FALSE
          /\ progress' = 0 /\ processedCount' = 0 /\ totalCount' = 0
          /\ UploadCalls' = <<>>
          /\ Len(toasts') = Len(toasts) + 1
          /\ Last(toasts').kind = "error"
          /\ Last(toasts').msg = UploadCalls[1].err
          /\ cards' = cards]_vars

\* The 101-key file failed in its third batch: the session is idle, the
\* error is shown and the hundred rows of the first two batches are there
C9_Witness ==
    /\ pc = "idle" /\ ~uploading /\ progress = 0
    /\ Len(toasts) = 1 /\ toasts[1].kind = "error" /\ toasts[1].file = MaxLines
    /\ Len(cards) - startRows = 100

(***************************************************************************)
(* C10: the count reported when every batch succeeded is the sum of the    *)
(* counts the batches returned: it is N, the number of normalized keys of  *)
(* the file, and N rows were added to storage by the upload.               *)
(***************************************************************************)
C10_ReportsTotalCount ==
    /\ \A n \in 1..Len(toasts) :
          toasts[n].kind = "success" => toasts[n].count = KeyCount(toasts[n].file)
    /\ (pc = "idle" /\ toasts # <<>> /\ Last(toasts).kind = "success")
       => Len(cards) - startRows = Last(toasts).count

\* The 101-key file went in, in three batches, and 101 is reported
C10_Witness ==
    /\ pc = "idle" /\ toasts # <<>>
    /\ Last(toasts).kind = "success" /\ Last(toasts).file = MaxLines
    /\ Last(toasts).count = 101
    /\ Len(cards) - startRows = 101

(***************************************************************************)
(* C11: at most one upload session is active at a time.  While a file      *)
(* upload runs (from the file being chosen until success, failure or the   *)
(* empty file) neither a second file can be chosen nor the manual form     *)
(* submitted: the user's next act stays undone, the session stays that of  *)
(* the same file and no addCards call is sent; at most one call of the     *)
(* upload is in flight; and once the session has ended both triggers are   *)
(* enabled again.                                                          *)
(***************************************************************************)
FormCalls == SelectSeq(calls, LAMBDA c : c.origin = "form")

C11_OneUploadSession ==
    [][/\ uploading =>
            /\ plan' = plan
            /\ Len(FormCalls') <= Len(FormCalls)
            /\ uploading' => (file' = file /\ startRows' = startRows)
       /\ (uploading <=> pc # "idle") /\ (uploading' <=> pc' # "idle")
       /\ Len(UploadCalls') <= 1
       /\ pc' = "idle" => (CanChooseFile' /\ CanSubmitForm')]_vars

\* A second session runs after the first has ended (the 51-key file went
\* in), and the user's next act, the manual form, waits for it
C11_Witness ==
    /\ uploading /\ pc = "awaiting" /\ file = 4
    /\ plan = <<ManualEntry>>
    /\ \E n \in 1..Len(toasts) : toasts[n].file = 56 /\ toasts[n].kind = "success"

(***************************************************************************)
(* C12: chunking is a partition.  For every non-empty key list, slicing at *)
(* the offsets 0, size, 2 * size, ... below its length gives batches that, *)
(* concatenated in order, are the list; every batch but the last has size  *)
(* elements and none is empty.  This holds of the coordinator's slice      *)
(* (size 50) and of the writer's (size 10), on the upload's key list and   *)
(* on the key list of every call; and the loops stand at such offsets.     *)
(***************************************************************************)
\* The values the loop variable takes: for (o = 0; o < n; o += size)
Offsets(n, size) == {o \in 0..(n - 1) : o % size = 0}

\* The batches of the list at the loop's offsets, concatenated in order
Joined(list, size, Chunk(_, _)) ==
    LET join[o \in 0..(Len(list) + size)] ==
            IF o >= Len(list) THEN <<>>
            ELSE Chunk(list, o) \o join[o + size]
    IN  join[0]

IsPartition(list, size, Chunk(_, _)) ==
    /\ Joined(list, size, Chunk) = list
    /\ \A o \in Offsets(Len(list), size) :
          /\ Chunk(list, o) # <<>>
          /\ Len(Chunk(list, o)) <= size
          /\ o + size < Len(list) => Len(Chunk(list, o)) = size

\* The key lists at hand: the upload's and those of the calls
KeyLists == {cardList} \cup {calls[k].keys : k \in 1..Len(calls)}

C12_ChunksPartition ==
    /\ \A list \in KeyLists \ {<<>>} :
          /\ IsPartition(list, BATCH_SIZE, Batch)
          /\ IsPartition(list, INSERT_BATCH_SIZE, InsertChunk)
    /\ pc \in {"awaiting", "progress"} => i \in Offsets(Len(cardList), BATCH_SIZE)
    /\ \A k \in 1..Len(calls) :
          calls[k].st = "insert" =>
             calls[k].j \in Offsets(Len(calls[k].keys), INSERT_BATCH_SIZE)

\* The 101-key list is at its second batch, whose 50 keys the writer is
\* inserting at offset 20
C12_Witness ==
    /\ pc = "awaiting" /\ Len(cardList) = 101 /\ i = 50
    /\ Len(UploadCalls) = 1
    /\ UploadCalls[1].st = "insert" /\ UploadCalls[1].j = 20
    /\ Len(UploadCalls[1].keys) = 50
    /\ Len(Batch(cardList, 100)) = 1

(***************************************************************************)
(* C13: normalization splits on newlines only, trims every line and drops  *)
(* the lines that are empty then, keeping order and duplicates (so a key   *)
(* with a comma stays one key).  The key list handleFileUpload builds from *)
(* the file and the one addCards builds from the textarea are the keys     *)
(* below; when there are none the upload sends no addCardsBatch call and   *)
(* addCards returns without an insert.                                     *)
(***************************************************************************)
\* Where the lines of a text start: after position 0 and after each newline
LineStarts(text) == {0} \cup {p \in 1..Len(text) : text[p] = "\n"}

\* The line that starts after position a: up to the next newline or the end
LineAfter(text, a) ==
    LET ends == {q \in (a + 1)..(Len(text) + 1) :
                    q = Len(text) + 1 \/ text[q] = "\n"}
        b == CHOOSE q \in ends : \A r \in ends : q <= r
    IN  SubSeq(text, a + 1, b - 1)

\* A line without the white space at its ends
Trimmed(line) ==
    LET ink == {p \in 1..Len(line) : ~IsSpace(line[p])}
    IN  IF ink = {} THEN <<>>
        ELSE SubSeq(line, CHOOSE p \in ink : \A q \in ink : p <= q,
                          CHOOSE p \in ink : \A q \in ink : q <= p)

\* The keys of a text: its lines that hold something, trimmed, in order
RECURSIVE KeysFrom(_, _)
KeysFrom(text, starts) ==
    IF starts = {} THEN <<>>
    ELSE LET a == CHOOSE p \in starts : \A q \in starts : p <= q
             key == Trimmed(LineAfter(text, a))
         IN  (IF key = <<>> THEN <<>> ELSE <<key>>)
             \o KeysFrom(text, starts \ {a})

KeysOf(text) == KeysFrom(text, LineStarts(text))

C13_NormalizeByLines ==
    [][/\ (pc = "reading" /\ pc' # "reading") =>
            LET keys == KeysOf(FileText(file))
            IN  IF keys = <<>>
                THEN /\ pc' = "idle"
                     /\ UploadCalls' = <<>>
                     /\ cards' = cards
                     /\ Last(toasts').msg = "admin.cards.noCards"
                ELSE /\ cardList' = keys
                     /\ totalCount' = Len(keys)
                     /\ Len(UploadCalls') = 1
       /\ \A k \in 1..Len(calls) :
             (/\ calls[k].origin = "form" /\ calls[k].st = "auth"
              /\ Len(calls') = Len(calls) /\ calls'[k].st # "auth") =>
                LET keys == KeysOf(calls[k].text)
                IN  IF keys = <<>>
                    THEN /\ calls'[k].st = "done"
                         /\ calls'[k].ok
                         /\ calls'[k].reval = <<>>
                         /\ cards' = cards
                    ELSE /\ calls'[k].st = "drop"
                         /\ calls'[k].keys = keys]_vars

\* The file with a comma and a repeated key gave three keys, and the form's
\* text two, commas kept
C13_Witness ==
    /\ pc = "awaiting" /\ file = 4
    /\ cardList = << <<"a", ",", "b">>, <<"b">>, <<"a", ",", "b">> >>
    /\ \E k \in 1..Len(calls) :
          /\ calls[k].origin = "form"
          /\ calls[k].keys = << <<"x", ",", "y">>, <<"x", ",", "y">> >>

(***************************************************************************)
(* C14: when addCards or addCardsBatch (with at least one key), deleteCard *)
(* or deleteAllCards ends with success, it has invoked revalidatePath, not *)
(* before its last storage statement, for the admin dashboard, the admin   *)
(* card view of the affected product and the storefront root; when it      *)
(* throws it has invoked none.                                             *)
(***************************************************************************)
CardOps == {"addCards", "addCardsBatch", "deleteCard", "deleteAllCards"}

\* The three views of a product's cards
ViewsOf(productId) == { <<"/admin">>, <<"/admin/cards", productId>>, <<"/">> }

\* The product a call changes cards of: deleteCard names it by the card
AffectedProduct(c) ==
    IF c.op = "deleteCard"
    THEN (CHOOSE r \in {cards[n] : n \in 1..Len(cards)} : r.id = c.cardId).productId
    ELSE c.productId

C14_RevalidatesAffectedViews ==
    [][\A k \in 1..Len(calls) :
          (/\ Len(calls') = Len(calls)
           /\ calls[k].op \in CardOps
           /\ calls[k].st \in {"insert", "delete", "deleteAll"}
           /\ calls'[k].st = "done") =>
             IF calls'[k].ok
             THEN ViewsOf(AffectedProduct(calls[k])) \subseteq
                     {calls'[k].reval[n] : n \in 1..Len(calls'[k].reval)}
             ELSE calls'[k].reval = <<>>]_vars

(***************************************************************************)
(* C15: however deleteCard(cardId) interleaves with the redemption steps   *)
(* that set the card's used flag or its reservation time, the step that    *)
(* removes the row finds the card, at that moment, unused and without a    *)
(* reservation younger than 60 seconds.                                    *)
(***************************************************************************)
C15_DeleteRechecksAtRemoval ==
    [][\A k \in 1..Len(calls) :
          (/\ Len(calls') = Len(calls)
           /\ calls[k].op = "deleteCard"
           /\ calls[k].st = "delete"
           /\ calls'[k].st = "done"
           /\ Len(cards') < Len(cards)) =>
             Deletable(cards, calls[k].cardId, now)]_vars

(***************************************************************************)
(* C16: deleteAllCards and deleteCard agree on which cards may go.  For    *)
(* every card of the product, whatever its used flag and however old its   *)
(* reservation (exactly 60 seconds among the ages), deleteAllCards removes *)
(* the card if and only if the guards of deleteCard, on that card at the   *)
(* same instant, let the delete go ahead.                                  *)
(***************************************************************************)
C16_SameDeletabilityRule ==
    [][\A k \in 1..Len(calls) :
          (/\ Len(calls') = Len(calls)
           /\ calls[k].op = "deleteAllCards"
           /\ calls[k].st = "deleteAll"
           /\ calls'[k].st = "done"
           /\ calls'[k].ok) =>
             \A n \in 1..Len(cards) :
                cards[n].productId = calls[k].productId =>
                   ((\A m \in 1..Len(cards') : cards'[m].id # cards[n].id)
                    <=> DeleteCardError(<<cards[n]>>, now) = "")]_vars

=============================================================================
